---- MODULE Spec2Model ----
(***************************************************************************)
(* Model of the certify issuers.                                           *)
(*                                                                         *)
(*   issuers/vault/vault.go : the synchronous (Vault PKI) issuer           *)
(*   issuers/aws            : the asynchronous (ACM PCA) issuer, of which  *)
(*                            only aws_test.go is at hand                  *)
(*                                                                         *)
(* Pointers are modelled as options: <<>> is nil, <<x>> points at x.       *)
(* Errors are strings, "nil" being the nil error.                          *)
(***************************************************************************)
EXTENDS Integers, Sequences, FiniteSets, TLC

\* ------------------------------------------------------------------ bounds
\* goroutines that may call Issue on one issuer at the same time
NumProcs == 2
\* Issue calls made on one issuer in one behaviour
MaxCalls == 2
\* entries of a ca_chain sequence in a backend reply
MaxChain == 2

Procs == 1..NumProcs

Nil == <<>>
Some(x) == <<x>>
NoErr == "nil"

\* ------------------------------------------------------------ certificates
\* x509.Certificate, the fields the callers look at
Cert(pub, cn, dns, ips, emails, uris) ==
    [pub |-> pub, cn |-> cn, dns |-> dns, ips |-> ips,
     emails |-> emails, uris |-> uris]

\* DER bytes: either the encoding of a certificate or bytes that are not one
DER(c) == [ok |-> TRUE, c |-> c]
JunkDER == [ok |-> FALSE, c |-> Cert(0, "", <<>>, <<>>, <<>>, <<>>)]

\* pem.EncodeToMemory(&pem.Block{Type: "CERTIFICATE", Bytes: der}): a text
\* holding one block. A PEM text is the sequence of the blocks it holds.
PEMBlock(type, der) == [type |-> type, bytes |-> der]
CertPEM(c) == << PEMBlock("CERTIFICATE", DER(c)) >>

\* x509.ParseCertificate
ParseCertificateErr(der) == IF der.ok THEN NoErr ELSE "x509: malformed certificate"
ParseCertificate(der) == IF der.ok THEN Some(der.c) ELSE Nil

\* the CA's own certificates; their key is no request's key
CAKey == 0
CertI == Cert(CAKey, "Intermediate CA", <<>>, <<>>, <<>>, <<>>)
CertR == Cert(CAKey, "Certify Test Cert", <<>>, <<>>, <<>>, <<>>)

\* ------------------------------------------------------------- call inputs
CommonNames == {"somename.com", "other.org"}

CertConfig(dns, ips, emails, uris) ==
    [SubjectAlternativeNames |-> dns, IPSubjectAlternativeNames |-> ips,
     EmailSubjectAlternativeNames |-> emails, URISubjectAlternativeNames |-> uris]

Confs ==
    { CertConfig(<<>>, <<>>, <<>>, <<>>),
      CertConfig(<<"extraname.com", "otherextraname.com">>, <<"1.2.3.4", "::1">>,
                 <<"a@x">>, <<"spiffe://x">>),
      CertConfig(<<"otherextraname.com", "extraname.com">>, <<"::1", "1.2.3.4">>,
                 <<>>, <<>>) }

NoConf == CertConfig(<<>>, <<>>, <<>>, <<>>)

\* ------------------------------------------------------------- CSR Builder
\* csr.FromCertConfig(commonName, conf): the request and the key generated
\* for it. keyId is the key the conf's KeyGenerator produced.
CertificateRequest(pub, cn, conf) ==
    [pub |-> pub, cn |-> cn,
     dns |-> conf.SubjectAlternativeNames,
     ips |-> conf.IPSubjectAlternativeNames,
     emails |-> conf.EmailSubjectAlternativeNames,
     uris |-> conf.URISubjectAlternativeNames]

NoCSR == CertificateRequest(CAKey, "", NoConf)

FromCertConfig(commonName, conf, keyId) ==
    [csrPEM |-> CertificateRequest(keyId, commonName, conf),
     keyPEM |-> [type |-> "PRIVATE KEY", key |-> keyId]]

NoKey == [type |-> "PRIVATE KEY", key |-> CAKey]


\* ------------------------------------------------- backend replies (Vault)
\* interface{} values of api.Secret.Data: k tells the dynamic type
Absent == [k |-> "absent", pem |-> <<>>, items |-> <<>>]
Text(pem) == [k |-> "text", pem |-> pem, items |-> <<>>]
List(items) == [k |-> "list", pem |-> <<>>, items |-> items]
Number == [k |-> "number", pem |-> <<>>, items |-> <<>>]

\* api.Secret: Warnings and the Data map; a nil or empty map has isnil/no keys
SecretData(certificate, ca_chain, issuing_ca) ==
    [certificate |-> certificate, ca_chain |-> ca_chain, issuing_ca |-> issuing_ca]
EmptyData == SecretData(Absent, Absent, Absent)
Secret(warnings, data) == [Warnings |-> warnings, Data |-> data]

\* len(secret.Data): the number of keys present in the map
LenData(d) ==
    (IF d.certificate.k = "absent" THEN 0 ELSE 1)
    + (IF d.ca_chain.k = "absent" THEN 0 ELSE 1)
    + (IF d.issuing_ca.k = "absent" THEN 0 ELSE 1)

\* all sequences over S of length at most n
RECURSIVE SeqsUpTo(_, _)
SeqsUpTo(S, n) ==
    IF n = 0 THEN {<<>>}
    ELSE LET shorter == SeqsUpTo(S, n - 1)
         IN  shorter \cup {Append(q, x) : q \in shorter, x \in S}

\* The certificate the CA signs for a request: it copies the subject, the
\* public key and the SANs of the CSR (the test's CA, aws_test.go:52-64).
\* The Vault CA names the subject by the common_name parameter and adds it
\* to the DNS SANs unless exclude_cn_from_sans is set.
SignedCert(csr) == Cert(csr.pub, csr.cn, csr.dns, csr.ips, csr.emails, csr.uris)

VaultSignedCert(opts) ==
    Cert(opts.CSR.pub, opts.CommonName,
         IF opts.ExcludeCNFromSANS THEN opts.CSR.dns
                                   ELSE <<opts.CommonName>> \o opts.CSR.dns,
         opts.CSR.ips, opts.CSR.emails, opts.CSR.uris)

\* the "certificate" values a reply may carry for a request
LeafValues(opts) ==
    { Absent, Number,
      Text(<<>>),
      Text(CertPEM(VaultSignedCert(opts))),
      Text(CertPEM([VaultSignedCert(opts) EXCEPT !.pub = CAKey])),
      Text(<< PEMBlock("CERTIFICATE", JunkDER) >>) }

ChainValues ==
    { Absent, Number, List(<<Number>>) }
    \cup { List(q) : q \in SeqsUpTo({Text(CertPEM(CertI)), Text(CertPEM(CertR))}, MaxChain) }

IssuingValues(opts) ==
    { Absent, Number, Text(CertPEM(CertI)), Text(CertPEM(VaultSignedCert(opts))) }

\* HTTP response bodies: nothing at all, bytes that are no JSON, or a secret
Body(kind, secret) == [kind |-> kind, secret |-> secret]
EmptyBody == Body("empty", Secret(FALSE, EmptyData))
GarbageBody == Body("garbage", Secret(FALSE, EmptyData))
JSONBody(secret) == Body("json", secret)

\* api.ParseSecret(resp.Body): the secret and the error
ParseSecret(body) ==
    CASE body.kind = "empty"   -> [secret |-> Nil, err |-> "EOF"]
      [] body.kind = "garbage" -> [secret |-> Nil, err |-> "invalid character"]
      [] OTHER                 -> [secret |-> Some(body.secret), err |-> NoErr]

\* (*api.Client).RawRequestWithContext: the response, if one arrived, and the
\* error, which is set when none arrived or the status is not a success
Response(status, body) == [StatusCode |-> status, Body |-> body]
StatusErr(status) == IF status = 404 THEN "Error making API request: 404"
                     ELSE "Error making API request: 500"
RawResult(resp, err) == [resp |-> resp, err |-> err]
Reply(status, body) ==
    RawResult(Some(Response(status, body)),
              IF status = 200 THEN NoErr ELSE StatusErr(status))
TransportFailure == RawResult(Nil, "connection refused")

\* what a well-behaved backend answers
GoodReplies(opts) ==
    { Reply(200, JSONBody(Secret(FALSE,
        SecretData(Text(CertPEM(VaultSignedCert(opts))),
                   List(<<Text(CertPEM(CertI))>>), Absent)))),
      TransportFailure }

\* every reply the model considers
AllReplies(opts) ==
    { Reply(200, JSONBody(Secret(FALSE, SecretData(c, ch, ca)))) :
        c \in LeafValues(opts), ch \in ChainValues, ca \in IssuingValues(opts) }
    \cup { Reply(200, EmptyBody), Reply(200, GarbageBody),
           Reply(500, EmptyBody), TransportFailure,
           Reply(404, EmptyBody), Reply(404, GarbageBody) }
    \cup { Reply(404, JSONBody(Secret(w, d))) :
             w \in BOOLEAN,
             d \in { EmptyData,
                     SecretData(Text(CertPEM(VaultSignedCert(opts))), Absent, Absent),
                     SecretData(Text(CertPEM(VaultSignedCert(opts))),
                                List(<<Text(CertPEM(CertI))>>), Absent) } }

\* ------------------------------------------------------- vault.go, helpers
\* csrOpts as Issue fills it in (vault.go:91-98)
csrOptsNoExclude(csrPEM, commonName, otherSans, timeToLive) ==
    [CSR |-> csrPEM, CommonName |-> commonName, ExcludeCNFromSANS |-> FALSE,
     Format |-> "pem", OtherSans |-> otherSans, TimeToLive |-> timeToLive]

csrOpts(csrPEM, commonName, otherSans, timeToLive) ==
    [CSR |-> csrPEM, CommonName |-> commonName, ExcludeCNFromSANS |-> TRUE,
     Format |-> "pem", OtherSans |-> otherSans, TimeToLive |-> timeToLive]

NoOpts == csrOpts(NoCSR, "", <<>>, 0)

\* the mount used as it is set, with no default
pkiMountNameAsSet(mount) == mount

\* the mount of the sign path (vault.go:127-130)
pkiMountName(mount) == IF mount # "" THEN mount ELSE "pki"

\* v.cli.NewRequest("PUT", "/v1/"+pkiMountName+"/sign/"+v.Role) with its body
\* set, sent with the token the client holds at that moment
NewRequest(client, mount, role, opts) ==
    [Method |-> "PUT", Path |-> <<"v1", pkiMountName(mount), "sign", role>>,
     Token |-> client.token, Client |-> client.id, Body |-> opts]

\* signCSR handing back the error of api.ParseSecret after a 404
signCSRResultParseErr(raw) ==
    LET resp == raw.resp
        err == raw.err
        parsed == ParseSecret(resp[1].Body)
    IN  IF resp # Nil /\ resp[1].StatusCode = 404
        THEN CASE parsed.err = "EOF" -> [secret |-> Nil, err |-> NoErr]
               [] parsed.err # NoErr -> [secret |-> Nil, err |-> parsed.err]
               [] OTHER ->
                    IF parsed.secret # Nil
                       /\ (parsed.secret[1].Warnings
                           \/ LenData(parsed.secret[1].Data) > 0)
                    THEN [secret |-> parsed.secret, err |-> err]
                    ELSE IF err # NoErr THEN [secret |-> Nil, err |-> err]
                    ELSE [secret |-> Nil, err |-> "EOF"]
        ELSE IF err # NoErr THEN [secret |-> Nil, err |-> err]
        ELSE parsed

\* signCSR from the raw result on (vault.go:137-158): the secret and the error
signCSRResult(raw) ==
    LET resp == raw.resp
        err == raw.err
        parsed == ParseSecret(resp[1].Body)
    IN  IF resp # Nil /\ resp[1].StatusCode = 404
        THEN CASE parsed.err = "EOF" -> [secret |-> Nil, err |-> NoErr]
               [] parsed.err # NoErr -> [secret |-> Nil, err |-> err]
               [] OTHER ->
                    IF parsed.secret # Nil
                       /\ (parsed.secret[1].Warnings
                           \/ LenData(parsed.secret[1].Data) > 0)
                    THEN [secret |-> parsed.secret, err |-> err]
                    ELSE IF err # NoErr THEN [secret |-> Nil, err |-> err]
                    ELSE [secret |-> Nil, err |-> "EOF"]
        ELSE IF err # NoErr THEN [secret |-> Nil, err |-> err]
        ELSE parsed

\* the type assertions of vault.go:106-113: does reading the data panic
RECURSIVE AllText(_)
AllText(items) ==
    IF items = <<>> THEN TRUE
    ELSE Head(items).k = "text" /\ AllText(Tail(items))

DataPanics(data) ==
    \/ data.certificate.k # "text"
    \/ /\ data.ca_chain.k # "absent"
       /\ \/ data.ca_chain.k # "list"
          \/ ~AllText(data.ca_chain.items)
    \/ /\ data.ca_chain.k = "absent"
       /\ data.issuing_ca.k \notin {"absent", "text"}

\* append(append(caChainPEM, '\n'), []byte(pemData.(string))...) over the
\* entries: the texts one after the other
RECURSIVE JoinPEM(_)
JoinPEM(items) ==
    IF items = <<>> THEN <<>>
    ELSE Head(items).pem \o JoinPEM(Tail(items))

\* chain resolution (vault.go:106-114)
caChainPEMBoth(data) ==
    data.certificate.pem
    \o (IF data.ca_chain.k # "absent" THEN JoinPEM(data.ca_chain.items) ELSE <<>>)
    \o (IF data.issuing_ca.k # "absent" THEN data.issuing_ca.pem ELSE <<>>)

caChainPEM(data) ==
    LET certPEM == data.certificate.pem
    IN  IF data.ca_chain.k # "absent"
        THEN certPEM \o JoinPEM(data.ca_chain.items)
        ELSE IF data.issuing_ca.k # "absent"
        THEN certPEM \o data.issuing_ca.pem
        ELSE certPEM

\* tls.Certificate
TLSCertificate(chain, key, leaf) ==
    [Certificate |-> chain, PrivateKey |-> key, Leaf |-> leaf]
NoTLSCertificate == TLSCertificate(<<>>, CAKey, Nil)

\* the DER blocks of the CERTIFICATE blocks of a PEM text, in order
RECURSIVE CertificateBlocks(_)
CertificateBlocks(pem) ==
    IF pem = <<>> THEN <<>>
    ELSE IF Head(pem).type = "CERTIFICATE"
         THEN <<Head(pem).bytes>> \o CertificateBlocks(Tail(pem))
         ELSE CertificateBlocks(Tail(pem))

\* tls.X509KeyPair(certPEMBlock, keyPEMBlock)
X509KeyPair(certPEMBlock, keyPEMBlock) ==
    LET chain == CertificateBlocks(certPEMBlock)
    IN  IF chain = <<>>
        THEN [cert |-> NoTLSCertificate,
              err |-> "tls: failed to find any PEM data in certificate input"]
        ELSE IF ParseCertificate(chain[1]) = Nil
        THEN [cert |-> NoTLSCertificate, err |-> ParseCertificateErr(chain[1])]
        ELSE IF ParseCertificate(chain[1])[1].pub # keyPEMBlock.key
        THEN [cert |-> NoTLSCertificate,
              err |-> "tls: private key does not match public key"]
        ELSE [cert |-> TLSCertificate(chain, keyPEMBlock.key, Nil), err |-> NoErr]

\* what Issue returns
Result(cert, err) == [cert |-> cert, err |-> err]
NoResult == Result(Nil, NoErr)

\* the assembly of Issue (vault.go:116-123)
AssembleUnpaired(chainPEM, keyPEM) ==
    LET chain == CertificateBlocks(chainPEM)
    IN  IF chain = <<>> \/ ParseCertificate(chain[1]) = Nil
        THEN Result(Nil, X509KeyPair(chainPEM, keyPEM).err)
        ELSE Result(Some(TLSCertificate(chain, keyPEM.key, ParseCertificate(chain[1]))),
                    NoErr)

AssembleKeepsPartial(chainPEM, keyPEM) ==
    LET pair == X509KeyPair(chainPEM, keyPEM)
    IN  IF pair.err # NoErr
        THEN Result(Some(TLSCertificate(CertificateBlocks(chainPEM), keyPEM.key, Nil)),
                    pair.err)
        ELSE Result(Some([pair.cert EXCEPT
                            !.Leaf = ParseCertificate(pair.cert.Certificate[1])]),
                    NoErr)

AssembleLeafOfLast(chainPEM, keyPEM) ==
    LET pair == X509KeyPair(chainPEM, keyPEM)
    IN  IF pair.err # NoErr
        THEN Result(Nil, pair.err)
        ELSE Result(Some([pair.cert EXCEPT
                            !.Leaf = ParseCertificate(
                                pair.cert.Certificate[Len(pair.cert.Certificate)])]),
                    NoErr)

Assemble(chainPEM, keyPEM) ==
    LET pair == X509KeyPair(chainPEM, keyPEM)
    IN  IF pair.err # NoErr
        THEN Result(Nil, pair.err)
        ELSE Result(Some([pair.cert EXCEPT
                            !.Leaf = ParseCertificate(pair.cert.Certificate[1])]),
                    NoErr)


\* ------------------------------------------------------ the Vault issuer
VARIABLES
    kind,        \* the issuer the program built: "vault" or "aws"
    v,           \* the Issuer struct: its settings and cli
    nconnect,    \* how many times connect has run api.NewClient
    nsessions,   \* how many clients api.NewClient has made for v.cli
    ncalls,      \* Issue calls begun so far
    backend,     \* "any": the backend may answer anything; "good": it behaves
    procs,       \* the goroutines that call Issue
    pc,          \* where each goroutine is in Issue
    commonName,  \* Issue's arguments, per goroutine
    conf,
    csrPEM,      \* Issue's locals, per goroutine
    keyPEM,
    csrErr,      \* the error csr.FromCertConfig returned to the call
    req,         \* the sign request the call sent, if any
    nsign,       \* sign requests sent by the call
    raw,         \* what RawRequestWithContext returned
    signed,      \* what signCSR returned: secret, err
    chainPEM,    \* caChainPEM as handed to tls.X509KeyPair, if it got there
    ret          \* what Issue returned

\* the ACM PCA issuer and its one caller
VARIABLES
    aws,         \* the Issuer struct: CertificateAuthorityARN, TimeToLive
    acalls,      \* Issue calls begun so far
    apc,         \* where the call is
    aArgs,       \* commonName and conf of the call
    aCSR,        \* the request and key built for the call
    aHandle,     \* the handle submit returned, if any
    caState,     \* the CA's state of the request: none, pending, issued, failed
    ctxDone,     \* the caller's context is cancelled or past its deadline
    ctxDoneAt,   \* where the call was when that happened, and how many CA
    logAtDone,   \*   calls had been made
    polls,       \* polls of the wait made so far
    observed,    \* what the wait saw last
    caLog,       \* the calls the Issue call made to the CA, in order
    aOut,        \* what the fetch returned, if it did
    aRet         \* what Issue returned

awsVars == <<aws, acalls, apc, aArgs, aCSR, aHandle, caState, ctxDone, ctxDoneAt,
             logAtDone, polls, observed, caLog, aOut, aRet>>

vaultVars == <<v, nconnect, nsessions, ncalls, backend, procs, pc, commonName, conf, csrPEM,
               csrErr,
               keyPEM, req, nsign, raw, signed, chainPEM, ret>>

\* api.Client: which NewClient call made it (0: handed to FromClient) and
\* the token set on it ("" while none is)
Client(id, token) == [id |-> id, token |-> token]

Issuer(url, token, mount, role, tlsConfig, timeToLive, otherSans, cli) ==
    [URL |-> url, Token |-> token, Mount |-> mount, Role |-> role,
     TLSConfig |-> tlsConfig, TimeToLive |-> timeToLive,
     OtherSubjectAlternativeNames |-> otherSans, cli |-> cli]

\* FromClient(v, role) (vault.go:51-56)
FromClient(client, role) ==
    Issuer(Nil, "", "", role, Nil, 0, <<>>, Some(client))

\* issuers built as a struct literal: any of the required settings may be
\* left out
LiteralIssuers ==
    { Issuer(url, token, mount, role, Some("tls"), 25, <<"1.2.3.4;UTF8:x">>, Nil) :
        url \in {Nil, Some("https://vault:8200")}, token \in {"", "s.token"},
        mount \in {"", "pki2"}, role \in {"", "web"} }

\* issuers built by FromClient, the mount set afterwards or not
ClientIssuers ==
    { [FromClient(Client(0, token), role) EXCEPT !.Mount = mount] :
        token \in {"", "s.token"}, role \in {"", "web"}, mount \in {"", "pki2"} }

ReadyIssuer ==
    Issuer(Some("https://vault:8200"), "s.token", "", "web", Nil, 25, <<>>, Nil)

NoRaw == RawResult(Nil, NoErr)
NoSigned == [secret |-> Nil, err |-> NoErr]

InitCalls ==
    /\ nconnect = 0
    /\ nsessions = 0
    /\ ncalls = 0
    /\ pc = [p \in Procs |-> "idle"]
    /\ commonName = [p \in Procs |-> ""]
    /\ conf = [p \in Procs |-> NoConf]
    /\ csrPEM = [p \in Procs |-> NoCSR]
    /\ csrErr = [p \in Procs |-> NoErr]
    /\ keyPEM = [p \in Procs |-> NoKey]
    /\ req = [p \in Procs |-> Nil]
    /\ nsign = [p \in Procs |-> 0]
    /\ raw = [p \in Procs |-> NoRaw]
    /\ signed = [p \in Procs |-> NoSigned]
    /\ chainPEM = [p \in Procs |-> Nil]
    /\ ret = [p \in Procs |-> NoResult]

\* a panic ends the program
Crashed == \E q \in Procs : pc[q] = "panic"

\* Issue connecting on every call, whether or not v.cli is set
IssueAlwaysConnects(p, cn, cf) ==
    /\ kind = "vault"
    /\ p \in procs
    /\ ~Crashed
    /\ pc[p] \in {"idle", "returned"}
    /\ ncalls < MaxCalls
    /\ ncalls' = ncalls + 1
    /\ commonName' = [commonName EXCEPT ![p] = cn]
    /\ conf' = [conf EXCEPT ![p] = cf]
    /\ csrPEM' = [csrPEM EXCEPT ![p] = NoCSR]
    /\ csrErr' = [csrErr EXCEPT ![p] = NoErr]
    /\ keyPEM' = [keyPEM EXCEPT ![p] = NoKey]
    /\ req' = [req EXCEPT ![p] = Nil]
    /\ nsign' = [nsign EXCEPT ![p] = 0]
    /\ raw' = [raw EXCEPT ![p] = NoRaw]
    /\ signed' = [signed EXCEPT ![p] = NoSigned]
    /\ chainPEM' = [chainPEM EXCEPT ![p] = Nil]
    /\ ret' = [ret EXCEPT ![p] = NoResult]
    /\ pc' = [pc EXCEPT ![p] = "connect"]
    /\ UNCHANGED <<kind, v, nconnect, nsessions, backend, procs>>
    /\ UNCHANGED awsVars

\* Issue is called (vault.go:78-79): the arguments, and the test of v.cli
Issue(p, cn, cf) ==
    /\ kind = "vault"
    /\ p \in procs
    /\ ~Crashed
    /\ pc[p] \in {"idle", "returned"}
    /\ ncalls < MaxCalls
    /\ ncalls' = ncalls + 1
    /\ commonName' = [commonName EXCEPT ![p] = cn]
    /\ conf' = [conf EXCEPT ![p] = cf]
    /\ csrPEM' = [csrPEM EXCEPT ![p] = NoCSR]
    /\ csrErr' = [csrErr EXCEPT ![p] = NoErr]
    /\ keyPEM' = [keyPEM EXCEPT ![p] = NoKey]
    /\ req' = [req EXCEPT ![p] = Nil]
    /\ nsign' = [nsign EXCEPT ![p] = 0]
    /\ raw' = [raw EXCEPT ![p] = NoRaw]
    /\ signed' = [signed EXCEPT ![p] = NoSigned]
    /\ chainPEM' = [chainPEM EXCEPT ![p] = Nil]
    /\ ret' = [ret EXCEPT ![p] = NoResult]
    /\ pc' = [pc EXCEPT ![p] = IF v.cli = Nil THEN "connect" ELSE "csr"]
    /\ UNCHANGED <<kind, v, nconnect, nsessions, backend, procs>>
    /\ UNCHANGED awsVars

\* Issue returns (cert, err)
Return(p, cert, err) ==
    /\ pc' = [pc EXCEPT ![p] = "returned"]
    /\ ret' = [ret EXCEPT ![p] = Result(cert, err)]

\* connect leaving a client without token in v.cli when api.NewClient fails
connectKeepsFailed(p) ==
    /\ ~Crashed
    /\ pc[p] = "connect"
    /\ IF v.URL = Nil
       THEN /\ pc' = [pc EXCEPT ![p] = "panic"]
            /\ UNCHANGED <<v, nconnect, nsessions, ret>>
       ELSE /\ nconnect' = nconnect + 1
            /\ \/ /\ v' = [v EXCEPT !.cli = Some(Client(nsessions + 1, ""))]
                  /\ nsessions' = nsessions + 1
                  /\ pc' = [pc EXCEPT ![p] = "settoken"]
                  /\ UNCHANGED ret
               \/ /\ v' = [v EXCEPT !.cli = Some(Client(nsessions + 1, ""))]
                  /\ Return(p, Nil, "api.NewClient failed")
                  /\ UNCHANGED nsessions
    /\ UNCHANGED <<awsVars, csrErr>>
    /\ UNCHANGED <<kind, ncalls, backend, procs, commonName, conf, csrPEM, keyPEM, req,
                   nsign, raw, signed, chainPEM>>

\* connect up to the assignment of v.cli (vault.go:59-70). v.URL.String()
\* on a nil URL is a nil dereference; api.NewClient may fail, and then
\* v.cli is assigned nil.
connect(p) ==
    /\ ~Crashed
    /\ pc[p] = "connect"
    /\ IF v.URL = Nil
       THEN /\ pc' = [pc EXCEPT ![p] = "panic"]
            /\ UNCHANGED <<v, nconnect, nsessions, ret>>
       ELSE /\ nconnect' = nconnect + 1
            /\ \/ /\ v' = [v EXCEPT !.cli = Some(Client(nsessions + 1, ""))]
                  /\ nsessions' = nsessions + 1
                  /\ pc' = [pc EXCEPT ![p] = "settoken"]
                  /\ UNCHANGED ret
               \/ /\ v' = [v EXCEPT !.cli = Nil]
                  /\ Return(p, Nil, "api.NewClient failed")
                  /\ UNCHANGED nsessions
    /\ UNCHANGED <<awsVars, csrErr>>
    /\ UNCHANGED <<kind, ncalls, backend, procs, commonName, conf, csrPEM, keyPEM, req,
                   nsign, raw, signed, chainPEM>>

\* v.cli.SetToken(v.Token) and the return to Issue (vault.go:72-73, 81-84)
SetToken(p) ==
    /\ ~Crashed
    /\ pc[p] = "settoken"
    /\ IF v.cli = Nil
       THEN /\ pc' = [pc EXCEPT ![p] = "panic"]
            /\ UNCHANGED v
       ELSE /\ v' = [v EXCEPT !.cli = Some([v.cli[1] EXCEPT !.token = v.Token])]
            /\ pc' = [pc EXCEPT ![p] = "csr"]
    /\ UNCHANGED <<awsVars, csrErr>>
    /\ UNCHANGED <<kind, nconnect, nsessions, ncalls, backend, procs, commonName, conf, csrPEM,
                   keyPEM, req, nsign, raw, signed, chainPEM, ret>>

\* the errors csr.FromCertConfig may return
CSRBuildErrors == {"csr: key generation failed", "csr: unsupported key type"}

\* Issue returning an error of its own when csr.FromCertConfig fails
BuildCSRWraps(p) ==
    /\ ~Crashed
    /\ pc[p] = "csr"
    /\ \/ \E e \in CSRBuildErrors :
             /\ csrErr' = [csrErr EXCEPT ![p] = e]
             /\ Return(p, Nil, "vault: could not build the request")
             /\ UNCHANGED <<csrPEM, keyPEM>>
       \/ /\ csrErr' = [csrErr EXCEPT ![p] = NoErr]
          /\ csrPEM' = [csrPEM EXCEPT
                          ![p] = FromCertConfig(commonName[p], conf[p], ncalls).csrPEM]
          /\ keyPEM' = [keyPEM EXCEPT
                          ![p] = FromCertConfig(commonName[p], conf[p], ncalls).keyPEM]
          /\ pc' = [pc EXCEPT ![p] = "sign"]
          /\ UNCHANGED ret
    /\ UNCHANGED awsVars
    /\ UNCHANGED <<kind, v, nconnect, nsessions, ncalls, backend, procs, commonName, conf, req,
                   nsign, raw, signed, chainPEM>>

\* csr.FromCertConfig(commonName, conf) (vault.go:86-89): it fails, or gives
\* the request and a key generated for this call
BuildCSR(p) ==
    /\ ~Crashed
    /\ pc[p] = "csr"
    /\ \/ \E e \in CSRBuildErrors :
             /\ csrErr' = [csrErr EXCEPT ![p] = e]
             /\ Return(p, Nil, e)
             /\ UNCHANGED <<csrPEM, keyPEM>>
       \/ /\ csrErr' = [csrErr EXCEPT ![p] = NoErr]
          /\ csrPEM' = [csrPEM EXCEPT
                          ![p] = FromCertConfig(commonName[p], conf[p], ncalls).csrPEM]
          /\ keyPEM' = [keyPEM EXCEPT
                          ![p] = FromCertConfig(commonName[p], conf[p], ncalls).keyPEM]
          /\ pc' = [pc EXCEPT ![p] = "sign"]
          /\ UNCHANGED ret
    /\ UNCHANGED awsVars
    /\ UNCHANGED <<kind, v, nconnect, nsessions, ncalls, backend, procs, commonName, conf, req,
                   nsign, raw, signed, chainPEM>>

\* the options of the call's request (vault.go:91-98)
Opts(p) ==
    csrOpts(csrPEM[p], commonName[p], v.OtherSubjectAlternativeNames, v.TimeToLive)

Replies(opts) == IF backend = "good" THEN GoodReplies(opts) ELSE AllReplies(opts)

\* signCSR sending the request a second time when the first one failed
signCSRRetries(p) ==
    /\ ~Crashed
    /\ pc[p] = "sign"
    /\ IF v.cli = Nil
       THEN /\ pc' = [pc EXCEPT ![p] = "panic"]
            /\ UNCHANGED <<req, nsign, raw, signed>>
       ELSE /\ req' = [req EXCEPT
                         ![p] = Some(NewRequest(v.cli[1], v.Mount, v.Role, Opts(p)))]
            /\ \E r \in Replies(Opts(p)) :
                 /\ raw' = [raw EXCEPT ![p] = r]
                 /\ signed' = [signed EXCEPT ![p] = signCSRResult(r)]
                 /\ nsign' = [nsign EXCEPT ![p] = IF r.err # NoErr THEN @ + 2 ELSE @ + 1]
            /\ pc' = [pc EXCEPT ![p] = "signed"]
    /\ UNCHANGED <<awsVars, csrErr>>
    /\ UNCHANGED <<kind, v, nconnect, nsessions, ncalls, backend, procs, commonName, conf, csrPEM,
                   keyPEM, chainPEM, ret>>

\* signCSR storing the mount it used in the issuer
signCSRSetsMount(p) ==
    /\ ~Crashed
    /\ pc[p] = "sign"
    /\ IF v.cli = Nil
       THEN /\ pc' = [pc EXCEPT ![p] = "panic"]
            /\ UNCHANGED <<v, req, nsign, raw, signed>>
       ELSE /\ v' = [v EXCEPT !.Mount = pkiMountName(v.Mount)]
            /\ req' = [req EXCEPT
                         ![p] = Some(NewRequest(v.cli[1], v.Mount, v.Role, Opts(p)))]
            /\ nsign' = [nsign EXCEPT ![p] = @ + 1]
            /\ \E r \in Replies(Opts(p)) :
                 /\ raw' = [raw EXCEPT ![p] = r]
                 /\ signed' = [signed EXCEPT ![p] = signCSRResult(r)]
            /\ pc' = [pc EXCEPT ![p] = "signed"]
    /\ UNCHANGED <<awsVars, csrErr>>
    /\ UNCHANGED <<kind, nconnect, nsessions, ncalls, backend, procs, commonName, conf, csrPEM,
                   keyPEM, chainPEM, ret>>

\* signCSR (vault.go:100, 126-159): the request goes out through v.cli as it
\* is now, the backend answers, and signCSR hands back secret and err
signCSR(p) ==
    /\ ~Crashed
    /\ pc[p] = "sign"
    /\ IF v.cli = Nil
       THEN /\ pc' = [pc EXCEPT ![p] = "panic"]
            /\ UNCHANGED <<req, nsign, raw, signed>>
       ELSE /\ req' = [req EXCEPT
                         ![p] = Some(NewRequest(v.cli[1], v.Mount, v.Role, Opts(p)))]
            /\ nsign' = [nsign EXCEPT ![p] = @ + 1]
            /\ \E r \in Replies(Opts(p)) :
                 /\ raw' = [raw EXCEPT ![p] = r]
                 /\ signed' = [signed EXCEPT ![p] = signCSRResult(r)]
            /\ pc' = [pc EXCEPT ![p] = "signed"]
    /\ UNCHANGED <<awsVars, csrErr>>
    /\ UNCHANGED <<kind, v, nconnect, nsessions, ncalls, backend, procs, commonName, conf, csrPEM,
                   keyPEM, chainPEM, ret>>

\* the rest of Issue (vault.go:101-123): the error of signCSR is returned;
\* else the data is read (a nil secret or a value of another type panics),
\* the chain is put together and assembled with the key
Finish(p) ==
    /\ ~Crashed
    /\ pc[p] = "signed"
    /\ IF signed[p].err # NoErr
       THEN /\ Return(p, Nil, signed[p].err)
            /\ UNCHANGED chainPEM
       ELSE IF signed[p].secret = Nil \/ DataPanics(signed[p].secret[1].Data)
       THEN /\ pc' = [pc EXCEPT ![p] = "panic"]
            /\ UNCHANGED <<chainPEM, ret>>
       ELSE LET chain == caChainPEM(signed[p].secret[1].Data)
                res == Assemble(chain, keyPEM[p])
            IN  /\ chainPEM' = [chainPEM EXCEPT ![p] = Some(chain)]
                /\ Return(p, res.cert, res.err)
    /\ UNCHANGED <<awsVars, csrErr>>
    /\ UNCHANGED <<kind, v, nconnect, nsessions, ncalls, backend, procs, commonName, conf, csrPEM,
                   keyPEM, req, nsign, raw, signed>>


\* ----------------------------------------------------- the ACM PCA issuer
\* polls one wait makes before it gives up
MaxPolls == 2

ErrTimeout == "RequestCanceled: waiter context canceled"
ErrDenied == "ResourceNotReady: issuance denied"

\* the issuer of the test (aws_test.go:32-41)
AwsIssuer == [CertificateAuthorityARN |-> "someARN", TimeToLive |-> 25]

\* the handle the CA gives out for its n-th request
CertificateArn(n) == [arn |-> "anotherARN", serial |-> n]

\* a call made to the CA
CACall(op, ca, handle) == [op |-> op, ca |-> ca, handle |-> handle]

\* GetCertificateOutput: the leaf and the chain the CA serves for a handle
GetCertificateOutputs(csr) ==
    { [Certificate |-> c, CertificateChain |-> ch] :
        c \in { CertPEM(SignedCert(csr)),
                CertPEM([SignedCert(csr) EXCEPT !.pub = CAKey]),
                << PEMBlock("CERTIFICATE", JunkDER) >> },
        ch \in { CertPEM(CertR), CertPEM(CertI) \o CertPEM(CertR) } }

InitAws ==
    /\ aws = AwsIssuer
    /\ acalls = 0
    /\ apc = "idle"
    /\ aArgs = [commonName |-> "", conf |-> NoConf]
    /\ aCSR = FromCertConfig("", NoConf, CAKey)
    /\ aHandle = Nil
    /\ caState = "none"
    /\ ctxDone = FALSE
    /\ ctxDoneAt = "never"
    /\ logAtDone = 0
    /\ polls = 0
    /\ observed = "nothing"
    /\ caLog = <<>>
    /\ aOut = Nil
    /\ aRet = NoResult

AwsReturn(cert, err) ==
    /\ apc' = "returned"
    /\ aRet' = Result(cert, err)

\* Issue is called with a live context
AwsIssue(cn, cf) ==
    /\ kind = "aws"
    /\ apc \in {"idle", "returned"}
    /\ acalls < MaxCalls
    /\ acalls' = acalls + 1
    /\ aArgs' = [commonName |-> cn, conf |-> cf]
    /\ apc' = "csr"
    /\ aCSR' = FromCertConfig("", NoConf, CAKey)
    /\ aHandle' = Nil
    /\ caState' = "none"
    /\ ctxDone' = FALSE
    /\ ctxDoneAt' = "never"
    /\ logAtDone' = 0
    /\ polls' = 0
    /\ observed' = "nothing"
    /\ aRet' = NoResult
    /\ caLog' = <<>>
    /\ aOut' = Nil
    /\ UNCHANGED aws
    /\ UNCHANGED <<kind, vaultVars>>

\* the caller cancels the context, or its deadline passes, during the call
CtxDone ==
    /\ apc \in {"csr", "submit", "wait", "waiting", "fetch"}
    /\ ~ctxDone
    /\ ctxDone' = TRUE
    /\ ctxDoneAt' = apc
    /\ logAtDone' = Len(caLog)
    /\ UNCHANGED <<aws, acalls, apc, aArgs, aCSR, aHandle, caState, polls, observed,
                   caLog, aRet>>
    /\ UNCHANGED <<kind, vaultVars, aOut>>

\* step 1: the CSR Builder
AwsBuildCSR ==
    /\ apc = "csr"
    /\ \/ /\ AwsReturn(Nil, "csr: key generation failed")
          /\ UNCHANGED aCSR
       \/ /\ aCSR' = FromCertConfig(aArgs.commonName, aArgs.conf, acalls)
          /\ apc' = "submit"
          /\ UNCHANGED aRet
    /\ UNCHANGED <<aws, acalls, aArgs, aHandle, caState, ctxDone, ctxDoneAt,
                   logAtDone, polls, observed, caLog>>
    /\ UNCHANGED <<kind, vaultVars, aOut>>

\* step 2: the request is submitted; the CA answers with a handle or the
\* call fails. A call made under a context that is done is not sent.
AwsSubmit ==
    /\ apc = "submit"
    /\ IF ctxDone
       THEN /\ AwsReturn(Nil, ErrTimeout)
            /\ UNCHANGED <<aHandle, caState, caLog>>
       ELSE /\ caLog' = Append(caLog, CACall("IssueCertificate",
                                             aws.CertificateAuthorityARN, Nil))
            /\ \/ /\ AwsReturn(Nil, "RequestError: send request failed")
                  /\ UNCHANGED <<aHandle, caState>>
               \/ /\ aHandle' = Some(CertificateArn(acalls))
                  /\ caState' = "pending"
                  /\ apc' = "wait"
                  /\ UNCHANGED aRet
    /\ UNCHANGED <<aws, acalls, aArgs, aCSR, ctxDone, ctxDoneAt, logAtDone, polls,
                   observed>>
    /\ UNCHANGED <<kind, vaultVars, aOut>>

\* the CA finishes the request: it issues the certificate or denies it
CADecides ==
    /\ caState = "pending"
    /\ caState' \in {"issued", "failed"}
    /\ UNCHANGED <<aws, acalls, apc, aArgs, aCSR, aHandle, ctxDone, ctxDoneAt,
                   logAtDone, polls, observed, caLog, aRet>>
    /\ UNCHANGED <<kind, vaultVars, aOut>>

\* step 3 left out: Issue goes on to the fetch without waiting
AwsWaitSkips ==
    /\ apc = "wait"
    /\ IF ctxDone
       THEN /\ AwsReturn(Nil, ErrTimeout)
       ELSE /\ apc' = "fetch"
            /\ UNCHANGED aRet
    /\ UNCHANGED <<aws, acalls, aArgs, aCSR, aHandle, caState, ctxDone, ctxDoneAt,
                   logAtDone, polls, observed, caLog>>
    /\ UNCHANGED <<kind, vaultVars, aOut>>

\* step 3: the wait for (CA, handle) begins
AwsWait ==
    /\ apc = "wait"
    /\ IF ctxDone
       THEN /\ AwsReturn(Nil, ErrTimeout)
            /\ UNCHANGED caLog
       ELSE /\ caLog' = Append(caLog, CACall("WaitUntilCertificateIssued",
                                             aws.CertificateAuthorityARN, aHandle))
            /\ apc' = "waiting"
            /\ UNCHANGED aRet
    /\ UNCHANGED <<aws, acalls, aArgs, aCSR, aHandle, caState, ctxDone, ctxDoneAt,
                   logAtDone, polls, observed>>
    /\ UNCHANGED <<kind, vaultVars, aOut>>

\* one poll of the wait, retrying a failed request as if it were pending
AwsPollRetriesDenied ==
    /\ apc = "waiting"
    /\ IF ctxDone \/ (caState # "issued" /\ polls >= MaxPolls)
       THEN /\ AwsReturn(Nil, ErrTimeout)
            /\ UNCHANGED <<polls, observed>>
       ELSE /\ observed' = caState
            /\ IF caState = "issued"
               THEN /\ apc' = "fetch"
                    /\ UNCHANGED <<polls, aRet>>
               ELSE /\ polls' = polls + 1
                    /\ UNCHANGED <<apc, aRet>>
    /\ UNCHANGED <<aws, acalls, aArgs, aCSR, aHandle, caState, ctxDone, ctxDoneAt,
                   logAtDone, caLog>>
    /\ UNCHANGED <<kind, vaultVars, aOut>>

\* one poll of the wait, blind to the context
AwsPollIgnoresCtx ==
    /\ apc = "waiting"
    /\ IF caState = "pending" /\ polls >= MaxPolls
       THEN /\ AwsReturn(Nil, ErrTimeout)
            /\ UNCHANGED <<polls, observed>>
       ELSE /\ observed' = caState
            /\ CASE caState = "issued" ->
                      /\ apc' = "fetch"
                      /\ UNCHANGED <<polls, aRet>>
                 [] caState = "failed" ->
                      /\ AwsReturn(Nil, ErrDenied)
                      /\ UNCHANGED polls
                 [] OTHER ->
                      /\ polls' = polls + 1
                      /\ UNCHANGED <<apc, aRet>>
    /\ UNCHANGED <<aws, acalls, aArgs, aCSR, aHandle, caState, ctxDone, ctxDoneAt,
                   logAtDone, caLog>>
    /\ UNCHANGED <<kind, vaultVars, aOut>>

\* one poll of the wait: a done context or the last attempt used up ends it
\* with the timeout error; an issued request lets Issue go on; a failed one
\* ends it with the denial; a pending one is polled again
AwsPoll ==
    /\ apc = "waiting"
    /\ IF ctxDone \/ (caState = "pending" /\ polls >= MaxPolls)
       THEN /\ AwsReturn(Nil, ErrTimeout)
            /\ UNCHANGED <<polls, observed>>
       ELSE /\ observed' = caState
            /\ CASE caState = "issued" ->
                      /\ apc' = "fetch"
                      /\ UNCHANGED <<polls, aRet>>
                 [] caState = "failed" ->
                      /\ AwsReturn(Nil, ErrDenied)
                      /\ UNCHANGED polls
                 [] OTHER ->
                      /\ polls' = polls + 1
                      /\ UNCHANGED <<apc, aRet>>
    /\ UNCHANGED <<aws, acalls, aArgs, aCSR, aHandle, caState, ctxDone, ctxDoneAt,
                   logAtDone, caLog>>
    /\ UNCHANGED <<kind, vaultVars, aOut>>

\* steps 4 and 5: leaf and chain are fetched for (CA, handle) and assembled
\* with the key, the leaf first
AwsFetch ==
    /\ apc = "fetch"
    /\ IF ctxDone
       THEN /\ AwsReturn(Nil, ErrTimeout)
            /\ UNCHANGED <<caLog, aOut>>
       ELSE /\ caLog' = Append(caLog, CACall("GetCertificate",
                                             aws.CertificateAuthorityARN, aHandle))
            /\ \/ /\ AwsReturn(Nil, "RequestError: send request failed")
                  /\ UNCHANGED aOut
               \/ \E out \in GetCertificateOutputs(aCSR.csrPEM) :
                    LET res == Assemble(out.Certificate \o out.CertificateChain,
                                        aCSR.keyPEM)
                    IN  /\ aOut' = Some(out)
                        /\ AwsReturn(res.cert, res.err)
    /\ UNCHANGED <<aws, acalls, aArgs, aCSR, aHandle, caState, ctxDone, ctxDoneAt,
                   logAtDone, polls, observed>>
    /\ UNCHANGED <<kind, vaultVars>>

\* --------------------------------------------------------- specifications
\* one caller at a time, either issuer, any backend
Init ==
    /\ kind \in {"vault", "aws"}
    /\ v \in IF kind = "vault" THEN LiteralIssuers \cup ClientIssuers ELSE {ReadyIssuer}
    /\ backend = "any"
    /\ procs = {1}
    /\ InitCalls
    /\ InitAws

\* concurrent callers of a Vault issuer that has its settings and no
\* session yet
InitConcurrent ==
    /\ kind = "vault"
    /\ v = ReadyIssuer
    /\ backend = "good"
    /\ procs = Procs
    /\ InitCalls
    /\ InitAws

NextVault ==
    \E p \in Procs :
        \/ \E cn \in CommonNames, cf \in Confs : Issue(p, cn, cf)
        \/ connect(p)
        \/ SetToken(p)
        \/ BuildCSR(p)
        \/ signCSR(p)
        \/ Finish(p)

\* the same steps, every call asking for the certificate of the test
NextConcurrent ==
    \E p \in Procs :
        \/ Issue(p, "somename.com",
                 CertConfig(<<"extraname.com", "otherextraname.com">>,
                            <<"1.2.3.4", "::1">>, <<>>, <<>>))
        \/ connect(p)
        \/ SetToken(p)
        \/ BuildCSR(p)
        \/ signCSR(p)
        \/ Finish(p)

NextAws ==
    \/ \E cn \in CommonNames, cf \in Confs : AwsIssue(cn, cf)
    \/ CtxDone
    \/ AwsBuildCSR
    \/ AwsSubmit
    \/ CADecides
    \/ AwsWait
    \/ AwsPoll
    \/ AwsFetch

Next == NextVault \/ NextAws

vars == <<kind, vaultVars, awsVars>>

Spec == Init /\ [][Next]_vars

SpecConcurrent == InitConcurrent /\ [][NextConcurrent]_vars


\* ------------------------------------------------------------- properties
Returned(p) == pc[p] = "returned"
Data(p) == signed[p].secret[1].Data
GotCert(p) == Returned(p) /\ ret[p].cert # Nil

\* the sign call of p got a not-found reply with this kind of body
NotFound(p, bodyKind) ==
    /\ raw[p].resp # Nil
    /\ raw[p].resp[1].StatusCode = 404
    /\ raw[p].resp[1].Body.kind = bodyKind

\* C1: after a 404 sign reply with an empty body Issue does not panic, and
\* what it returns is a nil certificate with a nil error.
C1_NotFoundEmptyBodyIsNoError ==
    \A p \in Procs :
        NotFound(p, "empty") =>
            /\ pc[p] # "panic"
            /\ Returned(p) => ret[p] = Result(Nil, NoErr)

\* the 404 reply of p carries a secret with a warning or with data
NotFoundWithContent(p) ==
    /\ NotFound(p, "json")
    /\ \/ raw[p].resp[1].Body.secret.Warnings
       \/ LenData(raw[p].resp[1].Body.secret.Data) > 0

\* C2: after a 404 sign reply whose body holds warnings or data, signCSR
\* hands the secret back without an error and Issue does not return the
\* status error of the reply.
C2_NotFoundWithContentIsUsed ==
    \A p \in Procs :
        (NotFoundWithContent(p) /\ pc[p] \in {"signed", "returned"}) =>
            /\ signed[p].err = NoErr
            /\ Returned(p) => ret[p].err # StatusErr(404)

\* C3: with concurrent callers of an issuer without a session, at most one
\* session is ever made, and every sign request goes out through a session
\* whose token is set.
C3_OneCompleteSession ==
    /\ nsessions <= 1
    /\ \A p \in Procs : req[p] # Nil => req[p][1].Token = v.Token

\* the texts of the entries, first to last, by position
ChainEntries(items) ==
    [i \in 1..Len(items) |-> items[i].pem]

RECURSIVE Flatten(_)
Flatten(texts) ==
    IF Len(texts) = 0 THEN <<>>
    ELSE Flatten(SubSeq(texts, 1, Len(texts) - 1)) \o texts[Len(texts)]

\* C4: the chain handed to the assembly is the leaf followed by the ca_chain
\* entries in their order when ca_chain is there (issuing_ca is then left
\* out), else the leaf and issuing_ca when that is there, else the leaf.
C4_ChainResolutionOrder ==
    \A p \in Procs :
        chainPEM[p] # Nil =>
            LET leaf == Data(p).certificate.pem
                chain == chainPEM[p][1]
            IN  IF Data(p).ca_chain.k # "absent"
                THEN chain = leaf \o Flatten(ChainEntries(Data(p).ca_chain.items))
                ELSE IF Data(p).issuing_ca.k # "absent"
                THEN chain = leaf \o Data(p).issuing_ca.pem
                ELSE chain = leaf

C4_Witness ==
    \E p \in Procs :
        /\ GotCert(p)
        /\ chainPEM[p] # Nil
        /\ Data(p).ca_chain.k = "list"
        /\ Len(Data(p).ca_chain.items) = 2
        /\ Data(p).ca_chain.items[1] # Data(p).ca_chain.items[2]
        /\ Data(p).issuing_ca.k = "text"

\* the reply of p carries, as its leaf, a certificate on another key than
\* the one generated for the call
LeafOnOtherKey(p) ==
    /\ signed[p].secret # Nil
    /\ Data(p).certificate.k = "text"
    /\ CertificateBlocks(Data(p).certificate.pem) # <<>>
    /\ LET der == CertificateBlocks(Data(p).certificate.pem)[1]
       IN  der.ok /\ der.c.pub # keyPEM[p].key

\* C5: a returned certificate holds the key generated for the request of
\* this call, and the leaf's public key pairs with it; a leaf on another key
\* makes Issue return an error and no certificate.
C5_KeyPairsWithLeaf ==
    \A p \in Procs :
        /\ GotCert(p) =>
             LET cert == ret[p].cert[1]
             IN  /\ cert.PrivateKey = keyPEM[p].key
                 /\ req[p] # Nil
                 /\ req[p][1].Body.CSR.pub = cert.PrivateKey
                 /\ cert.PrivateKey = ncalls
                 /\ ParseCertificate(cert.Certificate[1]) # Nil
                 /\ ParseCertificate(cert.Certificate[1])[1].pub = cert.PrivateKey
        /\ (Returned(p) /\ signed[p].err = NoErr /\ LeafOnOtherKey(p)) =>
             /\ ret[p].cert = Nil
             /\ ret[p].err # NoErr

C5_Witness ==
    \E p \in Procs :
        /\ GotCert(p)
        /\ ncalls = 2
        /\ ret[p].cert[1].PrivateKey = 2

\* is der one of the blocks of the texts
InTexts(der, texts) ==
    \E i \in 1..Len(texts) : \E j \in 1..Len(texts[i]) : texts[i][j].bytes = der

SignedAsAsked(p) ==
    /\ req[p] # Nil
    /\ signed[p].secret # Nil
    /\ Data(p).certificate = Text(CertPEM(VaultSignedCert(req[p][1].Body)))

CallsOf(op) == {i \in 1..Len(caLog) : caLog[i].op = op}

\* C8: when the context is done after the call got to the CA and before the
\* wait has seen the request issued, no call goes to the CA from then on,
\* none of the calls made is a fetch, and what Issue returns is the timeout
\* error and no certificate.
C8_DoneContextStopsTheCall ==
    ctxDoneAt \in {"submit", "wait", "waiting"} =>
        /\ Len(caLog) = logAtDone
        /\ CallsOf("GetCertificate") = {}
        /\ apc # "fetch"
        /\ apc = "returned" => aRet = Result(Nil, ErrTimeout)

C8_Witness ==
    /\ apc = "returned"
    /\ ctxDoneAt = "waiting"
    /\ caState = "failed"
    /\ aRet = Result(Nil, ErrTimeout)
    /\ Len(caLog) = 2

\* C9: once the wait has seen the request denied, Issue has returned the
\* denial, which is not the timeout error, and no certificate; it has
\* submitted once, and its last call to the CA is the wait: no fetch.
C9_DenialEndsTheCall ==
    observed = "failed" =>
        /\ apc = "returned"
        /\ aRet = Result(Nil, ErrDenied)
        /\ aRet.err # ErrTimeout
        /\ Cardinality(CallsOf("IssueCertificate")) = 1
        /\ Cardinality(CallsOf("WaitUntilCertificateIssued")) = 1
        /\ CallsOf("GetCertificate") = {}
        /\ caLog[Len(caLog)].op = "WaitUntilCertificateIssued"

C9_Witness ==
    /\ observed = "failed"
    /\ apc = "returned"
    /\ polls > 0
    /\ ~ctxDone

\* C10: an Issue call of the Vault issuer that returns an error returns no
\* certificate with it.
C10_NoCertificateWithError ==
    \A p \in Procs :
        (Returned(p) /\ ret[p].err # NoErr) => ret[p].cert = Nil

C10_Witness ==
    \E p \in Procs :
        /\ Returned(p)
        /\ chainPEM[p] # Nil
        /\ Len(chainPEM[p][1]) = 3
        /\ ret[p].err = "tls: private key does not match public key"

\* ---------------------------------------------------------------------- C11
\* C11: one Issue call on the synchronous issuer sends at most one sign
\* request, whatever the outcome: a request that failed is not sent again.
C11_AtMostOneSignRequest ==
    \A p \in Procs :
        /\ nsign[p] <= 1
        /\ (req[p] # Nil) <=> (nsign[p] = 1)

\* a call whose one request failed in transport has returned
C11_Witness ==
    \E p \in Procs :
        /\ Returned(p)
        /\ nsign[p] = 1
        /\ raw[p] = TransportFailure
        /\ ret[p].err = "connection refused"

\* ---------------------------------------------------------------------- C12
\* the session was handed in by FromClient, not made by connect
Injected == v.cli # Nil /\ v.cli[1].id = 0

\* a required setting is missing: the Role, or, when the issuer has to make
\* its own session, the URL or the Token
MissingSetting ==
    \/ v.Role = ""
    \/ ~Injected /\ (v.URL = Nil \/ v.Token = "")

\* C12: when URL, Token or Role is missing, Issue returns an error and no
\* certificate, and it does so before any request goes to the backend.
C12_MissingSettingIsConfigurationError ==
    \A p \in Procs :
        (kind = "vault" /\ MissingSetting /\ pc[p] # "idle") =>
            /\ pc[p] # "panic"
            /\ nsign[p] = 0
            /\ req[p] = Nil
            /\ Returned(p) => (ret[p].cert = Nil /\ ret[p].err # NoErr)

\* ---------------------------------------------------------------------- C13
\* the sign call gave a secret whose data has not the shape Issue reads:
\* certificate missing or not text, ca_chain not a sequence of text,
\* issuing_ca not text
Uninterpretable(p) ==
    /\ signed[p].err = NoErr
    /\ signed[p].secret # Nil
    /\ DataPanics(Data(p))

\* C13: on a reply of a shape that cannot be interpreted Issue returns an
\* error and no certificate; the call never ends abnormally.
C13_UninterpretableReplyIsAnError ==
    \A p \in Procs :
        Uninterpretable(p) =>
            /\ pc[p] # "panic"
            /\ Returned(p) => (ret[p].cert = Nil /\ ret[p].err # NoErr)

\* ---------------------------------------------------------------------- C14
\* C14: the sign request goes to the mount of the Mount setting when that is
\* not empty and to the mount "pki" when it is, and under the Role setting.
C14_RequestAddressedToMountAndRole ==
    \A p \in Procs :
        req[p] # Nil =>
            /\ v.Mount # "" => req[p][1].Path = <<"v1", v.Mount, "sign", v.Role>>
            /\ v.Mount = "" => req[p][1].Path = <<"v1", "pki", "sign", v.Role>>

\* a request of an issuer with no Mount set went out
C14_Witness ==
    \E p \in Procs :
        /\ v.Mount = ""
        /\ v.Role = "web"
        /\ nsign[p] = 1
        /\ req[p] # Nil
        /\ req[p][1].Path[2] = "pki"

\* ---------------------------------------------------------------------- C15
\* the 404 reply of p is neither empty nor a secret with warnings or data
NotFoundOther(p) ==
    \/ NotFound(p, "garbage")
    \/ NotFound(p, "json") /\ ~NotFoundWithContent(p)

\* C15: after a 404 sign reply whose body is not empty and holds no secret
\* with warnings or data, signCSR gives no secret and the status error of
\* the sign call, not the error of parsing the body, and Issue returns that
\* error and no certificate.
C15_NotFoundOtherwiseIsStatusError ==
    \A p \in Procs :
        (NotFoundOther(p) /\ pc[p] \in {"signed", "returned"}) =>
            /\ signed[p] = [secret |-> Nil, err |-> raw[p].err]
            /\ raw[p].err = StatusErr(404)
            /\ signed[p].err # ParseSecret(raw[p].resp[1].Body).err
            /\ Returned(p) => ret[p] = Result(Nil, StatusErr(404))

\* a call answered 404 with a body that is no JSON has returned
C15_Witness ==
    \E p \in Procs :
        /\ NotFound(p, "garbage")
        /\ ParseSecret(raw[p].resp[1].Body).err = "invalid character"
        /\ Returned(p)
        /\ ret[p].err = StatusErr(404)

\* ---------------------------------------------------------------------- C16
\* the CA operations of one Issue, in the order of the procedure
CAOps == <<"IssueCertificate", "WaitUntilCertificateIssued", "GetCertificate">>

\* C16: the CA calls of one Issue of the asynchronous issuer are submit, then
\* wait, then fetch; all name the configured CA, wait and fetch carry the
\* handle this call's submit returned, and a fetch is made only after the
\* wait has seen the request issued.
C16_SubmitWaitFetchInOrder ==
    /\ Len(caLog) <= Len(CAOps)
    /\ \A i \in 1..Len(caLog) :
          /\ caLog[i].op = CAOps[i]
          /\ caLog[i].ca = aws.CertificateAuthorityARN
          /\ i > 1 => (caLog[i].handle # Nil
                       /\ caLog[i].handle = aHandle
                       /\ caLog[i].handle = Some(CertificateArn(acalls)))
    /\ CallsOf("GetCertificate") # {} => observed = "issued"

\* the second call on the issuer went through submit, wait and fetch and
\* returned a certificate
C16_Witness ==
    /\ acalls = 2
    /\ apc = "returned"
    /\ aRet.cert # Nil
    /\ Len(caLog) = 3
    /\ caLog[3].handle = Some(CertificateArn(2))
    /\ polls > 0

\* ---------------------------------------------------------------------- C17
\* C17: when the CSR builder fails, Issue returns the builder's error as it
\* is and no certificate, and sends no sign request.
C17_BuilderErrorReturnedUnchanged ==
    \A p \in Procs :
        csrErr[p] # NoErr =>
            /\ Returned(p)
            /\ ret[p] = Result(Nil, csrErr[p])
            /\ nsign[p] = 0
            /\ req[p] = Nil

\* a call whose CSR could not be built has returned
C17_Witness ==
    \E p \in Procs :
        /\ Returned(p)
        /\ csrErr[p] = "csr: unsupported key type"
        /\ ret[p].err = "csr: unsupported key type"
        /\ csrPEM[p] = NoCSR

\* ---------------------------------------------------------------------- C18
\* C18: over the calls made one after the other on an issuer, the session
\* is never replaced once there is one: a session handed in is never
\* established anew nor touched, a session the issuer made is the only one
\* it ever makes, and every sign request goes out through it.
C18_SessionNeverReplaced ==
    /\ [](Injected => nconnect = 0)
    /\ [](nsessions <= 1)
    /\ [](\A p \in Procs :
            req[p] # Nil => (v.cli # Nil /\ req[p][1].Client = v.cli[1].id))
    /\ [][ /\ v.cli # Nil => (v'.cli # Nil /\ v'.cli[1].id = v.cli[1].id)
           /\ Injected => v'.cli = v.cli ]_vars

\* the second call on an issuer that made its session in the first call has
\* sent its request through that session
C18_Witness ==
    \E p \in Procs :
        /\ ncalls = 2
        /\ nconnect = 1
        /\ nsessions = 1
        /\ Returned(p)
        /\ req[p] # Nil
        /\ req[p][1].Client = 1

\* ---------------------------------------------------------------------- C19
\* the settings of the issuer; cli, the session, is its one other field
ConfigFields ==
    {"URL", "Token", "Mount", "Role", "TLSConfig", "TimeToLive",
     "OtherSubjectAlternativeNames"}

\* C19: no step of an Issue call changes a setting of the issuer or the
\* arguments of the call; the issuer has no field but its settings and the
\* session, so it holds nothing of a certificate it returned; and a call
\* that returns a certificate has sent one sign request of its own, for the
\* CSR and key made in this call.
C19_IssueWritesOnlyTheSession ==
    /\ [](DOMAIN v = ConfigFields \cup {"cli"})
    /\ [](\A p \in Procs :
            GotCert(p) =>
                /\ nsign[p] = 1
                /\ req[p] # Nil
                /\ req[p][1].Body.CSR = csrPEM[p]
                /\ csrPEM[p].pub = ncalls
                /\ csrPEM[p].cn = commonName[p])
    /\ [][ /\ \A f \in ConfigFields : v'[f] = v[f]
           /\ \A p \in Procs :
                pc[p] \notin {"idle", "returned"} =>
                    (conf'[p] = conf[p] /\ commonName'[p] = commonName[p]) ]_vars

\* the second call on an issuer got a certificate on its own request, from
\* an issuer with all its settings as they were given
C19_Witness ==
    \E p \in Procs :
        /\ ncalls = 2
        /\ GotCert(p)
        /\ nsign[p] = 1
        /\ req[p][1].Body.CSR.pub = 2
        /\ v.Mount = ""
        /\ v.cli # Nil
        /\ v.cli[1].id = 1

\* ---------------------------------------------------------------------- C20
\* the call of p has returned the error of a failed session establishment
EstablishmentFailed(p) ==
    Returned(p) /\ ret[p].err = "api.NewClient failed"

\* C20: when the session cannot be established Issue returns that error and
\* no certificate, has built no CSR and sent no request, and leaves the
\* issuer without a session: the next Issue goes to establish one again.
C20_FailedEstablishmentLeavesNoSession ==
    /\ [](\A p \in Procs :
            EstablishmentFailed(p) =>
                /\ ret[p].cert = Nil
                /\ csrPEM[p] = NoCSR
                /\ keyPEM[p] = NoKey
                /\ csrErr[p] = NoErr
                /\ nsign[p] = 0
                /\ req[p] = Nil
                /\ v.cli = Nil)
    /\ [][ \A p \in Procs :
             (EstablishmentFailed(p) /\ pc'[p] # pc[p]) => pc'[p] = "connect" ]_vars

\* after a call that failed to establish the session, the next call has
\* established it and sent its request
C20_Witness ==
    \E p \in Procs :
        /\ ncalls = 2
        /\ nconnect = 2
        /\ nsessions = 1
        /\ v.cli # Nil
        /\ Returned(p)
        /\ nsign[p] = 1

====
